---- MODULE Spec2Model ----
(***************************************************************************)
(* Knucklebuck: a two-player dice-placement game (src/src/App.tsx).        *)
(* Player one is the human, player two is the Knucklebot.  The module      *)
(* models the pure game utilities, the Knucklebot's lane selection, the    *)
(* React state of the App component (playerOne, playerTwo, gameState,      *)
(* selectedDifficulty), the timers scheduled by the roll / AI-move effect  *)
(* and the end-of-game submission to the persistence collaborator.         *)
(*                                                                         *)
(* JavaScript arrays are sequences; a JavaScript index i is position i+1.  *)
(***************************************************************************)
EXTENDS Integers, Sequences, FiniteSets, TLC

VARIABLES playerOne, playerTwo, gameState, selectedDifficulty, timers,
          db, userId, lastSelection, lastSave, pure, storedWins, snapshot

vars == <<playerOne, playerTwo, gameState, selectedDifficulty, timers,
          db, userId, lastSelection, lastSave, pure, storedWins, snapshot>>

(***************************************************************************)
(* 1. Constants and bounds                                                 *)
(***************************************************************************)
TOTAL_LANES == 3
LANE_SIZE == 3

\* Faces the die shows in the game specification (getDiceRoll yields 1..6).
MaxFace == 2

\* Faces used when the pure utilities are applied to arbitrary lanes.
DieFaces == 6

Lanes == 0..(TOTAL_LANES - 1)

\* DIFFICULTY_LEVELS: the values of the three options.
DifficultyValues == {1, 0, 2}

At(arr, i) == arr[i + 1]

\* Array.prototype.includes
Includes(arr, v) == \E k \in 1..Len(arr) : arr[k] = v

RECURSIVE FindIndexFrom(_, _, _)
FindIndexFrom(arr, v, k) ==
  IF k > Len(arr) THEN -1
  ELSE IF arr[k] = v THEN k - 1
  ELSE FindIndexFrom(arr, v, k + 1)

\* arr.findIndex((x) => x === v): the first index holding v, or -1.
FindIndex(arr, v) == FindIndexFrom(arr, v, 1)

\* arr with the element at JavaScript index i replaced by v.
SetAt(arr, i, v) == [arr EXCEPT ![i + 1] = v]

(***************************************************************************)
(* 2. Game utilities (pure functions)                                      *)
(***************************************************************************)
\* Object keys are strings: dict[value] stores under String(value) and
\* parseInt reads the key back.
KeyOf(v) == <<"1", "2", "3", "4", "5", "6">>[v]

parseInt(key) == CHOOSE v \in 1..6 : KeyOf(v) = key

\* dict[value] = (dict[value] || 0) + 1
Tally(dict, value) ==
  LET key == KeyOf(value)
  IN  IF key \in DOMAIN dict
        THEN [dict EXCEPT ![key] = @ + 1]
        ELSE [k \in DOMAIN dict \cup {key} |-> IF k = key THEN 1 ELSE dict[k]]

RECURSIVE CountValues(_, _, _)
CountValues(lane, k, dict) ==
  IF k > Len(lane) THEN dict
  ELSE CountValues(lane, k + 1,
                   IF lane[k] # 0 THEN Tally(dict, lane[k]) ELSE dict)

RECURSIVE SumDict(_, _)
SumDict(dict, keys) ==
  IF keys = {} THEN 0
  ELSE LET property == CHOOSE k \in keys : TRUE
           value == parseInt(property)
           count == dict[property]
       IN  value * count * count + SumDict(dict, keys \ {property})

EmptyDict == [k \in {} |-> 0]

\* Faulty variant: each value counts once per die, the count is not squared.
calcLaneScoreLinear(lane) ==
  LET dict == CountValues(lane, 1, EmptyDict)
      Keys == DOMAIN dict
      F[ks \in SUBSET Keys] ==
        IF ks = {} THEN 0
        ELSE LET k == CHOOSE x \in ks : TRUE
             IN  parseInt(k) * dict[k] + F[ks \ {k}]
  IN  F[Keys]

calcLaneScore(lane) ==
  LET dict == CountValues(lane, 1, EmptyDict)
  IN  SumDict(dict, DOMAIN dict)

RECURSIVE SumLanes(_, _)
SumLanes(board, i) ==
  IF i >= TOTAL_LANES THEN 0
  ELSE calcLaneScore(At(board, i)) + SumLanes(board, i + 1)

calcTotalScore(board) == SumLanes(board, 0)

\* Faulty variant: only the first matching die is removed.
clearMatchesFirst(lane, valueToClear) ==
  LET y == FindIndex(lane, valueToClear)
  IN  IF y = -1 THEN lane
      ELSE Append(SubSeq(lane, 1, y) \o SubSeq(lane, y + 2, Len(lane)), 0)

\* Faulty variant: the matching dice are blanked where they stand.
clearMatchesInPlace(lane, valueToClear) ==
  [k \in 1..Len(lane) |-> IF lane[k] = valueToClear THEN 0 ELSE lane[k]]

RECURSIVE PadZeros(_)
PadZeros(newLane) ==
  IF Len(newLane) < LANE_SIZE THEN PadZeros(Append(newLane, 0)) ELSE newLane

clearMatches(lane, valueToClear) ==
  LET Keep(v) == v # valueToClear
  IN  PadZeros(SelectSeq(lane, Keep))

(***************************************************************************)
(* 3. Knucklebot AI logic                                                  *)
(***************************************************************************)
\* Math.floor(Math.random() * TOTAL_LANES): the values a call may return.
selectRandomSpace == Lanes

\* Checks only the last slot of the lane.
laneIsFull(board, laneIndex) == At(At(board, laneIndex), LANE_SIZE - 1) # 0

RECURSIVE MatchFrom(_, _, _)
MatchFrom(selfBoard, roll, x) ==
  IF x >= Len(selfBoard) THEN -1
  ELSE IF Includes(At(selfBoard, x), roll) /\ ~laneIsFull(selfBoard, x) THEN x
  ELSE MatchFrom(selfBoard, roll, x + 1)

matchMove(selfBoard, roll) == MatchFrom(selfBoard, roll, 0)

RECURSIVE CaptureFrom(_, _, _)
CaptureFrom(opponentBoard, roll, x) ==
  IF x >= Len(opponentBoard) THEN -1
  ELSE IF Includes(At(opponentBoard, x), roll) THEN x
  ELSE CaptureFrom(opponentBoard, roll, x + 1)

captureMove(opponentBoard, roll) == CaptureFrom(opponentBoard, roll, 0)

RECURSIVE FirstNonFullFrom(_, _)
FirstNonFullFrom(board, i) ==
  IF i >= Len(board) THEN -1
  ELSE IF ~laneIsFull(board, i) THEN i
  ELSE FirstNonFullFrom(board, i + 1)

\* selfBoard.findIndex((_, i) => !laneIsFull(selfBoard, i))
FirstNonFullLane(board) == FirstNonFullFrom(board, 0)

FilledSlots(lane) == Cardinality({k \in 1..Len(lane) : lane[k] # 0})

\* Faulty variant: the increase is taken on the sum of the faces.
ScoreIncreaseSum(currentLane, roll) ==
  LET nextEmptyIndex == FindIndex(currentLane, 0)
      nextLane == SetAt(currentLane, nextEmptyIndex, roll)
  IN  calcLaneScoreLinear(nextLane) - calcLaneScoreLinear(currentLane)

\* The increase in lane score when roll is put at the lane's first empty slot.
ScoreIncrease(currentLane, roll) ==
  LET nextEmptyIndex == FindIndex(currentLane, 0)
      nextLane == SetAt(currentLane, nextEmptyIndex, roll)
  IN  calcLaneScore(nextLane) - calcLaneScore(currentLane)

\* The scan of bestPlacementMove; acc.found is FALSE while maxScoreIncrease
\* is still -Infinity.
RECURSIVE BestScan(_, _, _, _)
BestScan(selfBoard, roll, i, acc) ==
  IF i >= Len(selfBoard) THEN acc
  ELSE LET currentLane == At(selfBoard, i)
           considered == ~laneIsFull(selfBoard, i)
                         /\ FilledSlots(currentLane) < LANE_SIZE
           scoreIncrease == ScoreIncrease(currentLane, roll)
           better == considered
                     /\ (~acc.found \/ scoreIncrease > acc.maxScoreIncrease)
       IN  BestScan(selfBoard, roll, i + 1,
                    IF better
                      THEN [found |-> TRUE, maxScoreIncrease |-> scoreIncrease,
                            bestLaneIndex |-> i]
                      ELSE acc)

\* The set of values bestPlacementMove may return.
bestPlacementMove(selfBoard, roll) ==
  LET acc == BestScan(selfBoard, roll, 0,
                      [found |-> FALSE, maxScoreIncrease |-> 0,
                       bestLaneIndex |-> -1])
  IN  IF acc.bestLaneIndex # -1 THEN {acc.bestLaneIndex}
      ELSE IF FirstNonFullLane(selfBoard) # -1
        THEN {FirstNonFullLane(selfBoard)}
      ELSE selectRandomSpace

\* The values the resampling loop of knucklebotMove can end with; the loop
\* never ends when the set is empty.
RandomOpenLane(selfBoard) ==
  {s \in selectRandomSpace : ~laneIsFull(selfBoard, s)}

\* Faulty variant: the capture lane is taken without looking at the own lane.
CaptureAlways(selfBoard, captureIndex) == captureIndex # -1

CaptureOpen(selfBoard, captureIndex) ==
  captureIndex # -1 /\ ~laneIsFull(selfBoard, captureIndex)

FirstOrRandom(selfBoard, firstNonFullLane) ==
  IF firstNonFullLane # -1 THEN {firstNonFullLane} ELSE RandomOpenLane(selfBoard)

\* Faulty variant: Easy looks for a capture before a match.
EasyMoveCaptureFirst(selfBoard, roll, captureIndex, matchIndex, firstNonFullLane) ==
  IF CaptureOpen(selfBoard, captureIndex) THEN {captureIndex}
  ELSE IF matchIndex # -1 THEN {matchIndex}
  ELSE FirstOrRandom(selfBoard, firstNonFullLane)

EasyMove(selfBoard, roll, captureIndex, matchIndex, firstNonFullLane) ==
  IF matchIndex # -1 THEN {matchIndex}
  ELSE IF CaptureOpen(selfBoard, captureIndex) THEN {captureIndex}
  ELSE FirstOrRandom(selfBoard, firstNonFullLane)

\* Faulty variant: Hard looks for a match before the best placement.
HardMoveMatchBeforeBest(selfBoard, roll, captureIndex, matchIndex, firstNonFullLane) ==
  IF CaptureOpen(selfBoard, captureIndex) THEN {captureIndex}
  ELSE IF matchIndex # -1 THEN {matchIndex}
  ELSE LET bestIndex == bestPlacementMove(selfBoard, roll)
       IN  IF bestIndex # {-1} THEN bestIndex
           ELSE FirstOrRandom(selfBoard, firstNonFullLane)

HardMove(selfBoard, roll, captureIndex, matchIndex, firstNonFullLane) ==
  IF CaptureOpen(selfBoard, captureIndex) THEN {captureIndex}
  ELSE LET bestIndex == bestPlacementMove(selfBoard, roll)
       IN  IF bestIndex # {-1} THEN bestIndex
           ELSE IF matchIndex # -1 THEN {matchIndex}
           ELSE FirstOrRandom(selfBoard, firstNonFullLane)

\* Faulty variant: Normal looks for a match before a capture.
NormalMoveMatchFirst(selfBoard, roll, captureIndex, matchIndex, firstNonFullLane) ==
  IF matchIndex # -1 THEN {matchIndex}
  ELSE IF CaptureOpen(selfBoard, captureIndex) THEN {captureIndex}
  ELSE FirstOrRandom(selfBoard, firstNonFullLane)

NormalMove(selfBoard, roll, captureIndex, matchIndex, firstNonFullLane) ==
  IF CaptureOpen(selfBoard, captureIndex) THEN {captureIndex}
  ELSE IF matchIndex # -1 THEN {matchIndex}
  ELSE FirstOrRandom(selfBoard, firstNonFullLane)

\* The set of lane indices a call may return; the call does not return
\* (the resampling loop spins) when the set is empty.
knucklebotMove(opponentBoard, selfBoard, roll, difficulty, isGameOver) ==
  IF isGameOver THEN selectRandomSpace
  ELSE IF RandomOpenLane(selfBoard) = {} THEN {}
  ELSE LET captureIndex == captureMove(opponentBoard, roll)
           matchIndex == matchMove(selfBoard, roll)
           firstNonFullLane == FirstNonFullLane(selfBoard)
       IN  CASE difficulty = 1 ->
                  EasyMove(selfBoard, roll, captureIndex, matchIndex,
                           firstNonFullLane)
             [] difficulty = 2 ->
                  HardMove(selfBoard, roll, captureIndex, matchIndex,
                           firstNonFullLane)
             [] OTHER ->
                  NormalMove(selfBoard, roll, captureIndex, matchIndex,
                             firstNonFullLane)

(***************************************************************************)
(* 4. Component state                                                      *)
(***************************************************************************)
initialPlayerBoard == <<<<0, 0, 0>>, <<0, 0, 0>>, <<0, 0, 0>>>>

\* Faulty variant: the win count is not carried into the new player object.
initialPlayerNoWins(isFirstPlayer, wins) ==
  [name |-> IF isFirstPlayer THEN "Player" ELSE "Knucklebot",
   isFirstPlayer |-> isFirstPlayer, currentRoll |-> 0, score |-> 0,
   wins |-> 0, isActive |-> FALSE, board |-> initialPlayerBoard]

\* initialPlayer(name, isFirstPlayer, wins), called with the default name
\* "Player" of the first player and with "Knucklebot".
initialPlayer(isFirstPlayer, wins) ==
  [name |-> IF isFirstPlayer THEN "Player" ELSE "Knucklebot",
   isFirstPlayer |-> isFirstPlayer, currentRoll |-> 0, score |-> 0,
   wins |-> wins, isActive |-> FALSE, board |-> initialPlayerBoard]

NoWinner == "none"

\* DIFFICULTY_LEVELS.find((d) => d.value === difficulty)?.label || "Normal"
DifficultyLabel(difficulty) ==
  CASE difficulty = 1 -> "Easy"
    [] difficulty = 0 -> "Normal"
    [] difficulty = 2 -> "Hard"
    [] OTHER -> "Normal"

NoSave == [calls |-> 0, submitted |-> FALSE, winsWrite |-> FALSE,
           totalWins |-> 0, matchWrite |-> FALSE, winnerName |-> "",
           scoreOne |-> 0, scoreTwo |-> 0, difficulty |-> "",
           playerOneNewTotalWins |-> 0, committed |-> FALSE]

\* Faulty variant: the win count is written whoever won.
saveDataAlwaysWins(c, winner, finalScoreOne, finalScoreTwo, playerOneNewTotalWins) ==
  IF ~c.db \/ ~c.userId
    THEN [NoSave EXCEPT !.calls = 1,
                        !.playerOneNewTotalWins = playerOneNewTotalWins]
    ELSE [calls |-> 1, submitted |-> TRUE,
          playerOneNewTotalWins |-> playerOneNewTotalWins,
          winsWrite |-> TRUE,
          totalWins |-> playerOneNewTotalWins,
          matchWrite |-> TRUE,
          winnerName |-> CASE winner = "playerOne" -> "Player"
                           [] winner = "playerTwo" -> "Knucklebot"
                           [] OTHER -> "Draw",
          scoreOne |-> finalScoreOne, scoreTwo |-> finalScoreTwo,
          difficulty |-> DifficultyLabel(c.difficulty), committed |-> FALSE]

\* saveData: what one call hands to the persistence collaborator, and the
\* new total it was called with.  The callback closes over db, userId and
\* gameState.difficulty (c).  Whether the batch is committed is decided by
\* the collaborator (CommitOutcomes).
saveData(c, winner, finalScoreOne, finalScoreTwo, playerOneNewTotalWins) ==
  IF ~c.db \/ ~c.userId
    THEN [NoSave EXCEPT !.calls = 1,
                        !.playerOneNewTotalWins = playerOneNewTotalWins]
    ELSE [calls |-> 1, submitted |-> TRUE,
          playerOneNewTotalWins |-> playerOneNewTotalWins,
          winsWrite |-> (winner = "playerOne"),
          totalWins |-> IF winner = "playerOne" THEN playerOneNewTotalWins
                        ELSE 0,
          matchWrite |-> TRUE,
          winnerName |-> CASE winner = "playerOne" -> "Player"
                           [] winner = "playerTwo" -> "Knucklebot"
                           [] OTHER -> "Draw",
          scoreOne |-> finalScoreOne, scoreTwo |-> finalScoreTwo,
          difficulty |-> DifficultyLabel(c.difficulty), committed |-> FALSE]

\* Faulty variant: one full lane is taken for a full board.
isBoardFullAnyLane(board) == \E i \in 0..(Len(board) - 1) : laneIsFull(board, i)

\* board.every((lane) => laneIsFull(board, board.indexOf(lane))): the lanes
\* of a board are distinct arrays, so indexOf yields each lane's own index.
isBoardFull(board) == \A i \in 0..(Len(board) - 1) : laneIsFull(board, i)

\* Faulty variant: player one wins a tie.
WinnerOfTie(p1, p2) ==
  IF p1.score >= p2.score THEN "playerOne" ELSE "playerTwo"

\* The winner isGameOver records when a board is full.
WinnerOf(p1, p2) ==
  IF p1.score > p2.score THEN "playerOne"
  ELSE IF p2.score > p1.score THEN "playerTwo"
  ELSE NoWinner

\* Faulty variant: the results are saved at every move.
isGameOverSaveFirst(c, p1, p2) ==
  LET winner == WinnerOf(p1, p2)
      over == isBoardFull(p1.board) \/ isBoardFull(p2.board)
  IN  [over |-> over, winner |-> IF over THEN winner ELSE NoWinner,
       save |-> saveData(c, winner, p1.score, p2.score, p1.wins)]

\* Faulty variant: the total handed to saveData is the current win count.
isGameOverNoIncrement(c, p1, p2) ==
  IF isBoardFull(p1.board) \/ isBoardFull(p2.board)
    THEN LET winner == WinnerOf(p1, p2)
         IN  [over |-> TRUE, winner |-> winner,
              save |-> saveData(c, winner, p1.score, p2.score, p1.wins)]
    ELSE [over |-> FALSE, winner |-> NoWinner, save |-> NoSave]

\* Faulty variant: only the first player's board is looked at.
isGameOverFirstBoardOnly(c, p1, p2) ==
  IF isBoardFull(p1.board)
    THEN LET winner == WinnerOf(p1, p2)
             playerOneNewTotalWins ==
               IF winner = "playerOne" THEN p1.wins + 1 ELSE p1.wins
         IN  [over |-> TRUE, winner |-> winner,
              save |-> saveData(c, winner, p1.score, p2.score,
                                playerOneNewTotalWins)]
    ELSE [over |-> FALSE, winner |-> NoWinner, save |-> NoSave]

\* Faulty variant: the game is over only once the results were submitted.
isGameOverNeedsSave(c, p1, p2) ==
  IF isBoardFull(p1.board) \/ isBoardFull(p2.board)
    THEN LET winner == WinnerOf(p1, p2)
             playerOneNewTotalWins ==
               IF winner = "playerOne" THEN p1.wins + 1 ELSE p1.wins
             save == saveData(c, winner, p1.score, p2.score,
                              playerOneNewTotalWins)
         IN  [over |-> save.submitted,
              winner |-> IF save.submitted THEN winner ELSE NoWinner,
              save |-> save]
    ELSE [over |-> FALSE, winner |-> NoWinner, save |-> NoSave]

\* isGameOver(p1, p2): whether the game ended, the winner and the saveData
\* call it makes.
isGameOver(c, p1, p2) ==
  IF isBoardFull(p1.board) \/ isBoardFull(p2.board)
    THEN LET winner == WinnerOf(p1, p2)
             playerOneNewTotalWins ==
               IF winner = "playerOne" THEN p1.wins + 1 ELSE p1.wins
         IN  [over |-> TRUE, winner |-> winner,
              save |-> saveData(c, winner, p1.score, p2.score,
                                playerOneNewTotalWins)]
    ELSE [over |-> FALSE, winner |-> NoWinner, save |-> NoSave]

\* Faulty variant: a move without a pending roll is not rejected.
SelectionCheckNoRoll(activePlayer, index) ==
  IF index \notin Lanes THEN "throw"
  ELSE IF laneIsFull(activePlayer.board, index) THEN "warn"
  ELSE "ok"

\* Faulty variant: a full lane is not rejected.
SelectionCheckNoFull(activePlayer, index) ==
  IF activePlayer.currentRoll = 0 THEN "warn"
  ELSE IF index \notin Lanes THEN "throw"
  ELSE "ok"

\* The validity check of makeSelection.  laneIsFull reads board[index][2]:
\* with a roll pending and index outside the board that read throws.
SelectionCheck(activePlayer, index) ==
  IF activePlayer.currentRoll = 0 THEN "warn"
  ELSE IF index \notin Lanes THEN "throw"
  ELSE IF laneIsFull(activePlayer.board, index) THEN "warn"
  ELSE "ok"

\* Faulty variant: the die goes to the last slot of the lane.
PlaceDieLastSlot(board, index, roll) ==
  SetAt(board, index, SetAt(At(board, index), LANE_SIZE - 1, roll))

\* Step 1 of makeSelection: the die goes to the first empty slot of the lane.
PlaceDie(board, index, roll) ==
  LET lane == At(board, index)
      y == FindIndex(lane, 0)
  IN  IF y # -1 THEN SetAt(board, index, SetAt(lane, y, roll)) ELSE board

\* Faulty variant: every lane of the opponent loses its matching dice.
ClearLaneEverywhere(otherPlayerBoard, index, roll) ==
  [i \in 1..Len(otherPlayerBoard) |-> clearMatches(otherPlayerBoard[i], roll)]

\* Step 2 of makeSelection: the opponent's lane loses every matching die.
ClearLane(otherPlayerBoard, index, roll) ==
  SetAt(otherPlayerBoard, index, clearMatches(At(otherPlayerBoard, index), roll))

\* Faulty variant: the acting player stays active after the move.
MovePlayersKeepTurn(p1, p2, index) ==
  LET activePlayer == IF p1.isActive THEN p1 ELSE p2
      otherPlayer == IF activePlayer.isFirstPlayer THEN p2 ELSE p1
      newPlayerBoard == PlaceDie(activePlayer.board, index,
                                 activePlayer.currentRoll)
      newOtherPlayerBoard == ClearLane(otherPlayer.board, index,
                                       activePlayer.currentRoll)
      newActive == [activePlayer EXCEPT !.board = newPlayerBoard,
                                        !.score = calcTotalScore(newPlayerBoard),
                                        !.currentRoll = 0]
      newOther == [otherPlayer EXCEPT !.board = newOtherPlayerBoard,
                                      !.score = calcTotalScore(newOtherPlayerBoard),
                                      !.currentRoll = 0]
  IN  IF activePlayer.isFirstPlayer
        THEN [newP1 |-> newActive, newP2 |-> newOther]
        ELSE [newP1 |-> newOther, newP2 |-> newActive]

\* Faulty variant: the opponent keeps the score it had before the capture.
MovePlayersStaleOther(p1, p2, index) ==
  LET activePlayer == IF p1.isActive THEN p1 ELSE p2
      otherPlayer == IF activePlayer.isFirstPlayer THEN p2 ELSE p1
      newPlayerBoard == PlaceDie(activePlayer.board, index,
                                 activePlayer.currentRoll)
      newOtherPlayerBoard == ClearLane(otherPlayer.board, index,
                                       activePlayer.currentRoll)
      newActive == [activePlayer EXCEPT !.board = newPlayerBoard,
                                        !.score = calcTotalScore(newPlayerBoard),
                                        !.currentRoll = 0, !.isActive = FALSE]
      newOther == [otherPlayer EXCEPT !.board = newOtherPlayerBoard,
                                      !.currentRoll = 0, !.isActive = TRUE]
  IN  IF activePlayer.isFirstPlayer
        THEN [newP1 |-> newActive, newP2 |-> newOther]
        ELSE [newP1 |-> newOther, newP2 |-> newActive]

\* Steps 1-4 of makeSelection on the players of its closure: the two new
\* player objects.
MovePlayers(p1, p2, index) ==
  LET activePlayer == IF p1.isActive THEN p1 ELSE p2
      otherPlayerBoard == IF activePlayer.isFirstPlayer THEN p2.board
                          ELSE p1.board
      newPlayerBoard == PlaceDie(activePlayer.board, index,
                                 activePlayer.currentRoll)
      newOtherPlayerBoard == ClearLane(otherPlayerBoard, index,
                                       activePlayer.currentRoll)
      newPlayerScore == calcTotalScore(newPlayerBoard)
      newOtherPlayerScore == calcTotalScore(newOtherPlayerBoard)
  IN  IF activePlayer.isFirstPlayer
        THEN [newP1 |-> [p1 EXCEPT !.board = newPlayerBoard,
                                   !.score = newPlayerScore,
                                   !.currentRoll = 0, !.isActive = FALSE],
              newP2 |-> [p2 EXCEPT !.board = newOtherPlayerBoard,
                                   !.score = newOtherPlayerScore,
                                   !.currentRoll = 0, !.isActive = TRUE]]
        ELSE [newP1 |-> [p1 EXCEPT !.board = newOtherPlayerBoard,
                                   !.score = newOtherPlayerScore,
                                   !.currentRoll = 0, !.isActive = TRUE],
              newP2 |-> [p2 EXCEPT !.board = newPlayerBoard,
                                   !.score = newPlayerScore,
                                   !.currentRoll = 0, !.isActive = FALSE]]

(***************************************************************************)
(* 5. The roll / AI-move effect and its timers                             *)
(***************************************************************************)
\* What the callbacks of one render close over.
Closure(p1, p2, gs, d, u) ==
  [p1 |-> p1, p2 |-> p2, db |-> d, userId |-> u, difficulty |-> gs.difficulty]

Timer(kind, selectionIndex, c) ==
  [kind |-> kind, selectionIndex |-> selectionIndex, c |-> c, stale |-> FALSE]

\* Faulty variant: the effect returns no cleanup, its timer is never cleared.
EffectNoCleanup(pending) == pending

\* The effect's cleanup, clearTimeout on the timer the previous run of the
\* effect set: the timers that stay pending.
EffectCleanup(pending) == {}

\* Faulty variant: the effect does not return early when the game is over.
EffectBodyWhenOver(p1, p2, gs, d, u) ==
  IF gs.rollingDice
    THEN {{Timer("roll", -1, Closure(p1, p2, gs, d, u))}}
  ELSE IF p2.isActive /\ p2.currentRoll # 0
    THEN {{Timer("ai", s, Closure(p1, p2, gs, d, u))} :
            s \in knucklebotMove(p1.board, p2.board, p2.currentRoll,
                                 gs.difficulty, gs.gameOver)}
  ELSE {{}}

\* Faulty variant: the effect schedules the roll only.
EffectBodyRollOnly(p1, p2, gs, d, u) ==
  IF gs.gameOver THEN {{}}
  ELSE IF gs.rollingDice
    THEN {{Timer("roll", -1, Closure(p1, p2, gs, d, u))}}
  ELSE {{}}

\* The body of the effect: the timers one run can set.
EffectBody(p1, p2, gs, d, u) ==
  IF gs.gameOver THEN {{}}
  ELSE IF gs.rollingDice
    THEN {{Timer("roll", -1, Closure(p1, p2, gs, d, u))}}
  ELSE IF p2.isActive /\ p2.currentRoll # 0
    THEN {{Timer("ai", s, Closure(p1, p2, gs, d, u))} :
            s \in knucklebotMove(p1.board, p2.board, p2.currentRoll,
                                 gs.difficulty, gs.gameOver)}
  ELSE {{}}

\* A render whose effect dependencies changed: cleanup, then the body.
RunEffect(pending, p1, p2, gs, d, u) ==
  \E new \in EffectBody(p1, p2, gs, d, u) :
    timers' = EffectCleanup(pending) \cup new

\* Timers of the game instance that startGame replaces.
MarkStale(pending) == {[t EXCEPT !.stale = TRUE] : t \in pending}

(***************************************************************************)
(* 6. Operations                                                           *)
(***************************************************************************)
Started == playerOne.isActive \/ playerTwo.isActive

\* The statistics document of the user does not exist (docSnap.exists() is
\* false); otherwise storedWins is its totalWins.
NoDocument == -1

Init ==
  /\ playerOne = initialPlayer(TRUE, 0)
  /\ playerTwo = initialPlayer(FALSE, 0)
  /\ gameState = [gameOver |-> TRUE, winner |-> NoWinner, difficulty |-> 0,
                  rollingDice |-> TRUE, isAuthReady |-> FALSE]
  /\ selectedDifficulty = 0
  /\ timers = {}
  /\ db = FALSE
  /\ userId = FALSE
  /\ lastSelection = "none"
  /\ lastSave = NoSave
  /\ pure = "idle"
  /\ storedWins = NoDocument
  /\ snapshot = FALSE

\* Faulty variant: the catch only logs the error.
FirebaseInitFailedNotReady ==
  /\ ~gameState.isAuthReady /\ ~db
  /\ UNCHANGED <<playerOne, playerTwo, gameState, selectedDifficulty, timers,
                 db, userId, lastSelection, lastSave, pure, storedWins,
                 snapshot>>

\* initializeApp throws: the catch marks the game ready, without a database.
FirebaseInitFailed ==
  /\ ~gameState.isAuthReady /\ ~db
  /\ gameState' = [gameState EXCEPT !.isAuthReady = TRUE]
  /\ UNCHANGED <<playerOne, playerTwo, selectedDifficulty, timers, db, userId,
                 lastSelection, lastSave, pure, storedWins, snapshot>>

\* The initialisation effect succeeds: setDb(dbInstance).
FirebaseInitialized ==
  /\ ~gameState.isAuthReady /\ ~db
  /\ db' = TRUE
  /\ UNCHANGED <<playerOne, playerTwo, gameState, selectedDifficulty, timers,
                 userId, lastSelection, lastSave, pure, storedWins, snapshot>>

\* The wins listener is subscribed (onSnapshot) by the render in which db,
\* userId and gameState.isAuthReady are all set; it then owes the component
\* a first snapshot of the statistics document.
ListenerAttaches(d, u, gs) == d /\ u /\ gs.isAuthReady

\* onAuthStateChanged callback, with or without a signed-in user.
AuthStateChanged(currentUser) ==
  /\ db
  /\ ~gameState.isAuthReady \/ (currentUser /\ ~userId)
  /\ userId' = (userId \/ currentUser)
  /\ gameState' = [gameState EXCEPT !.isAuthReady = TRUE]
  /\ IF userId' # userId
       THEN RunEffect(timers, playerOne, playerTwo, gameState', db, userId')
       ELSE UNCHANGED timers
  /\ snapshot' = (snapshot \/ (ListenerAttaches(db, userId', gameState')
                                  /\ ~ListenerAttaches(db, userId, gameState)))
  /\ UNCHANGED <<playerOne, playerTwo, selectedDifficulty, db, lastSelection,
                 lastSave, pure, storedWins>>

\* The difficulty select of the start screen.
SetSelectedDifficulty(d) ==
  /\ gameState.isAuthReady /\ gameState.gameOver
  /\ gameState.winner = NoWinner
  /\ d # selectedDifficulty
  /\ selectedDifficulty' = d
  /\ UNCHANGED <<playerOne, playerTwo, gameState, timers, db, userId,
                 lastSelection, lastSave, pure, storedWins, snapshot>>

\* startGame, reachable from the START GAME and PLAY AGAIN buttons, which
\* are rendered only while gameState.gameOver.
startGame ==
  /\ gameState.isAuthReady /\ gameState.gameOver
  /\ playerOne' = [initialPlayer(TRUE, playerOne.wins) EXCEPT !.isActive = TRUE]
  /\ playerTwo' = initialPlayer(FALSE, playerTwo.wins)
  /\ gameState' = [gameOver |-> FALSE, winner |-> NoWinner,
                   difficulty |-> selectedDifficulty, rollingDice |-> TRUE,
                   isAuthReady |-> gameState.isAuthReady]
  /\ RunEffect(MarkStale(timers), playerOne', playerTwo', gameState', db, userId)
  /\ lastSave' = NoSave
  /\ UNCHANGED <<selectedDifficulty, db, userId, lastSelection, pure,
                 storedWins, snapshot>>

\* Faulty variant: Math.floor(Math.random() * 6), the faces start at 0.
getDiceRollFromZero == 0..(MaxFace - 1)

\* getDiceRoll: Math.floor(Math.random() * 6 + 1), within the faces in play.
getDiceRoll == 1..MaxFace

\* The roll timer fires: handleDiceRoll with the playerOne.isActive of the
\* render that scheduled it.
handleDiceRoll ==
  \E t \in timers :
    /\ t.kind = "roll"
    /\ IF gameState.gameOver
         THEN /\ timers' = timers \ {t}
              /\ UNCHANGED <<playerOne, playerTwo, gameState>>
         ELSE \E roll \in getDiceRoll :
                /\ IF t.c.p1.isActive
                     THEN /\ playerOne' = [playerOne EXCEPT !.currentRoll = roll]
                          /\ UNCHANGED playerTwo
                     ELSE /\ playerTwo' = [playerTwo EXCEPT !.currentRoll = roll]
                          /\ UNCHANGED playerOne
                /\ gameState' = [gameState EXCEPT !.rollingDice = FALSE]
                /\ RunEffect(timers \ {t}, playerOne', playerTwo', gameState',
                             db, userId)
    /\ UNCHANGED <<selectedDifficulty, db, userId, lastSelection, lastSave,
                   pure, storedWins, snapshot>>

\* await withBackoff(() => batch.commit()): the batch is committed, or the
\* call throws (a failure that is not retried, or retries exhausted) and
\* nothing is stored.  Without a submitted batch there is nothing to commit.
CommitOutcomes(save) == IF save.submitted THEN BOOLEAN ELSE {FALSE}

\* makeSelection(index) with the closure c, after the timers in `pending`
\* remain: rejected (warn, throw) without any state update, or applied.
\* saveData is not awaited: its failure reaches no state of the game.
makeSelection(c, index, pending) ==
  LET activePlayer == IF c.p1.isActive THEN c.p1 ELSE c.p2
      check == SelectionCheck(activePlayer, index)
  IN  IF check # "ok"
        THEN /\ lastSelection' = check
             /\ timers' = pending
             /\ UNCHANGED <<playerOne, playerTwo, gameState, lastSave,
                            storedWins, snapshot>>
        ELSE \E moved \in {MovePlayers(c.p1, c.p2, index)} :
             \E end \in {isGameOver(c, moved.newP1, moved.newP2)} :
             \E committed \in CommitOutcomes(end.save) :
               /\ lastSelection' = "applied"
               /\ playerOne' = moved.newP1
               /\ playerTwo' = moved.newP2
               /\ gameState' = IF end.over
                                  THEN [gameState EXCEPT !.gameOver = TRUE,
                                                         !.winner = end.winner]
                                  ELSE [gameState EXCEPT !.rollingDice = TRUE]
               /\ lastSave' =
                    IF end.save.calls > 0
                      THEN [end.save EXCEPT
                              !.calls = lastSave.calls + end.save.calls,
                              !.committed = committed]
                      ELSE lastSave
               /\ storedWins' = IF end.save.winsWrite /\ committed
                                  THEN end.save.totalWins
                                  ELSE storedWins
               /\ snapshot' = (snapshot \/ (end.save.winsWrite /\ committed))
               /\ RunEffect(pending, playerOne', playerTwo', gameState', db,
                            userId)

\* The wins listener's callback receives the statistics document: when the
\* document exists, setPlayerOne((prev) => ({ ...prev, wins: storedWins })).
\* The new player object changes makeSelection, so the effect runs again.
SnapshotDelivered ==
  /\ snapshot
  /\ snapshot' = FALSE
  /\ IF storedWins # NoDocument
       THEN /\ playerOne' = [playerOne EXCEPT !.wins = storedWins]
            /\ RunEffect(timers, playerOne', playerTwo, gameState, db, userId)
       ELSE UNCHANGED <<playerOne, timers>>
  /\ UNCHANGED <<playerTwo, gameState, selectedDifficulty, db, userId,
                 lastSelection, lastSave, pure, storedWins>>

\* Faulty variant: the lane buttons of both boards are enabled for the
\* active player, without the first-player condition.
HumanSelectEitherBoard(index) ==
  /\ gameState.isAuthReady
  /\ ~gameState.gameOver
  /\ ~gameState.rollingDice
  /\ \E player \in {playerOne, playerTwo} :
       player.isActive /\ ~laneIsFull(player.board, index)
  /\ makeSelection(Closure(playerOne, playerTwo, gameState, db, userId),
                   index, timers)
  /\ UNCHANGED <<selectedDifficulty, db, userId, pure>>

\* A click on lane `index` of player one's board; the button is disabled
\* unless it is player one's turn, no roll is being generated, the game is
\* on and the lane is not full.
HumanSelect(index) ==
  /\ gameState.isAuthReady
  /\ ~gameState.gameOver
  /\ playerOne.isActive
  /\ ~gameState.rollingDice
  /\ playerOne.isFirstPlayer
  /\ ~laneIsFull(playerOne.board, index)
  /\ makeSelection(Closure(playerOne, playerTwo, gameState, db, userId),
                   index, timers)
  /\ UNCHANGED <<selectedDifficulty, db, userId, pure>>

\* The AI timer fires: makeSelection(selectionIndex) of the render that
\* scheduled it.
AiMove ==
  \E t \in timers :
    /\ t.kind = "ai"
    /\ makeSelection(t.c, t.selectionIndex, timers \ {t})
    /\ UNCHANGED <<selectedDifficulty, db, userId, pure>>

\* makeSelection called with an arbitrary index, as the selectLane callback
\* handed to the rendering layer allows.
DirectSelect(index) ==
  /\ gameState.isAuthReady
  /\ makeSelection(Closure(playerOne, playerTwo, gameState, db, userId),
                   index, timers)
  /\ UNCHANGED <<selectedDifficulty, db, userId, pure>>

(***************************************************************************)
(* 7. Specifications                                                       *)
(***************************************************************************)
\* The human clicks lanes 0..MaxHumanLane only.
MaxHumanLane == 0

\* The human clicks one of the first MaxChoice open lanes.
MaxChoice == 1

RECURSIVE OpenLanesFrom(_, _, _)
OpenLanesFrom(board, i, n) ==
  IF i >= TOTAL_LANES \/ n = 0 THEN {}
  ELSE IF laneIsFull(board, i) THEN OpenLanesFrom(board, i + 1, n)
  ELSE {i} \cup OpenLanesFrom(board, i + 1, n - 1)

FirstOpenLanes(board) == OpenLanesFrom(board, 0, MaxChoice)

\* The whole program: the persistence collaborator may fail to initialise,
\* the user may sign in late or never.
Next ==
  \/ FirebaseInitFailed
  \/ FirebaseInitialized
  \/ \E u \in BOOLEAN : AuthStateChanged(u)
  \/ \E d \in DifficultyValues : SetSelectedDifficulty(d)
  \/ startGame
  \/ handleDiceRoll
  \/ \E index \in 0..MaxHumanLane : HumanSelect(index)
  \/ AiMove
  \/ SnapshotDelivered

Spec == Init /\ [][Next]_vars

\* The first player stops clicking once the Knucklebot's board holds
\* MaxLiveDice dice.
MaxLiveDice == 3

\* Play in local-only mode at every difficulty with the timers firing
\* fairly: a pending setTimeout callback (the delayed roll, the delayed AI
\* move) is eventually run unless it is cleared.  Nothing is assumed of the
\* first player's clicks.
NextLive ==
  \/ FirebaseInitFailed
  \/ \E d \in DifficultyValues : SetSelectedDifficulty(d)
  \/ startGame
  \/ handleDiceRoll
  \/ \E index \in FirstOpenLanes(playerOne.board) :
       /\ Cardinality({<<i, k>> \in (1..TOTAL_LANES) \X (1..LANE_SIZE) :
                         playerTwo.board[i][k] # 0}) < MaxLiveDice
       /\ HumanSelect(index)
  \/ AiMove

SpecLive ==
  Init /\ [][NextLive]_vars /\ WF_vars(handleDiceRoll) /\ WF_vars(AiMove)

\* Play with the persistence collaborator available and the user signed in
\* by the first authentication callback, while the wins listener has not
\* yet been called back.
NextPlay ==
  \/ FirebaseInitialized
  \/ AuthStateChanged(TRUE)
  \/ \E d \in DifficultyValues : SetSelectedDifficulty(d)
  \/ startGame
  \/ handleDiceRoll
  \/ \E index \in FirstOpenLanes(playerOne.board) : HumanSelect(index)
  \/ AiMove

SpecPlay == Init /\ [][NextPlay]_vars

\* The selectLane callback driven with any index at any time.
ApiIndices == (-1)..MaxHumanLane \cup {TOTAL_LANES}

NextApi ==
  \/ FirebaseInitFailed
  \/ \E d \in DifficultyValues : SetSelectedDifficulty(d)
  \/ startGame
  \/ handleDiceRoll
  \/ \E index \in ApiIndices : DirectSelect(index)
  \/ AiMove

SpecApi == Init /\ [][NextApi]_vars

\* Games the stored win count may reach before no further game is started.
MaxWins == 2

\* Play at the default difficulty with the wins listener delivering its
\* snapshots, the persistence collaborator available or not.
NextWins ==
  \/ FirebaseInitFailed
  \/ FirebaseInitialized
  \/ \E u \in BOOLEAN : AuthStateChanged(u)
  \/ storedWins < MaxWins /\ playerOne.wins < MaxWins /\ startGame
  \/ handleDiceRoll
  \/ \E index \in FirstOpenLanes(playerOne.board) : HumanSelect(index)
  \/ AiMove
  \/ SnapshotDelivered

SpecWins == Init /\ [][NextWins]_vars

\* The pure utilities applied to inputs drawn from bounded sets.
FnLanes == {<<a, b, c>> : a \in 0..DieFaces, b \in 0..DieFaces, c \in 0..DieFaces}

Reverse(lane) == [k \in 1..Len(lane) |-> lane[Len(lane) + 1 - k]]

\* A board around a lane: the lane itself, its mirror image and a lane that
\* holds the roll twice.
FnBoard(lane, roll) == <<lane, Reverse(lane), <<roll, roll, 0>>>>

FnInputs ==
  {[op |-> "input", lane |-> lane, roll |-> roll, board |-> FnBoard(lane, roll)] :
     lane \in FnLanes, roll \in 1..DieFaces}

InitFn ==
  /\ playerOne = initialPlayer(TRUE, 0)
  /\ playerTwo = initialPlayer(FALSE, 0)
  /\ gameState = [gameOver |-> TRUE, winner |-> NoWinner, difficulty |-> 0,
                  rollingDice |-> TRUE, isAuthReady |-> FALSE]
  /\ selectedDifficulty = 0
  /\ timers = {}
  /\ db = FALSE
  /\ userId = FALSE
  /\ lastSelection = "none"
  /\ lastSave = NoSave
  /\ pure \in FnInputs
  /\ storedWins = NoDocument
  /\ snapshot = FALSE

FnApply(op, out) ==
  /\ pure.op = "input"
  /\ pure' = [op |-> op, lane |-> pure.lane, roll |-> pure.roll,
              board |-> pure.board, out |-> out]
  /\ UNCHANGED <<playerOne, playerTwo, gameState, selectedDifficulty, timers,
                 db, userId, lastSelection, lastSave, storedWins, snapshot>>

FnClearMatches == FnApply("clearMatches", clearMatches(pure.lane, pure.roll))

FnLaneScore == FnApply("calcLaneScore", calcLaneScore(pure.lane))

FnTotalScore == FnApply("calcTotalScore", calcTotalScore(pure.board))

\* Player one, holding the roll, selects the last lane against an opponent whose
\* board is pure.board: the opponent's board after the move.
FnCapture ==
  FnApply("capture",
          MovePlayers([initialPlayer(TRUE, 0) EXCEPT !.isActive = TRUE,
                                                     !.currentRoll = pure.roll],
                      [initialPlayer(FALSE, 0) EXCEPT !.board = pure.board],
                      TOTAL_LANES - 1).newP2.board)

\* Player one, holding the roll, selects lane `index` of a board whose lane
\* `index` is pure.lane; the move is accepted.
FnSelect(index) ==
  LET before == SetAt(pure.board, index, pure.lane)
      p1 == [initialPlayer(TRUE, 0) EXCEPT !.isActive = TRUE,
                                           !.currentRoll = pure.roll,
                                           !.board = before,
                                           !.score = calcTotalScore(before)]
      moved == MovePlayers(p1, initialPlayer(FALSE, 0), index)
  IN  /\ SelectionCheck(p1, index) = "ok"
      /\ FnApply("select", [index |-> index, before |-> before,
                            after |-> moved.newP1.board,
                            score |-> moved.newP1.score])

\* bestPlacementMove on a board whose lane 0 is pure.lane (filled from the
\* front), whose lane 1 is empty and whose lane 2 holds one die: the increase
\* computed for each lane that is not full, and the lane returned.
FnBest(face) ==
  LET board == <<pure.lane, <<0, 0, 0>>, <<face, 0, 0>>>>
  IN  /\ \A k \in 1..(LANE_SIZE - 1) : pure.lane[k] = 0 => pure.lane[k + 1] = 0
      /\ FnApply("bestPlacementMove",
                 [board |-> board,
                  increase |-> [i \in {x \in Lanes : ~laneIsFull(board, x)} |->
                                  ScoreIncrease(At(board, i), pure.roll)],
                  best |-> bestPlacementMove(board, pure.roll)])

NextFn ==
  \/ \E face \in 1..DieFaces : FnBest(face)
  \/ FnClearMatches
  \/ FnLaneScore
  \/ FnTotalScore
  \/ FnCapture
  \/ \E index \in Lanes : FnSelect(index)

SpecFn == InitFn /\ [][NextFn]_vars

(***************************************************************************)
(* withBackoff, one call followed from its first attempt to its end.  The  *)
(* call is held in `pure`: maxRetries, the loop counter i, the number of   *)
(* times fn was called, the errors after which the loop went on, where the *)
(* call stands (awaiting fn, awaiting the delay, returned, thrown) and the *)
(* error it threw.                                                         *)
(***************************************************************************)
\* maxRetries = 5, the default every caller uses.
DefaultMaxRetries == 5

\* message: the words of the text, or Undefined for an object without one.
Undefined == <<"undefined">>

\* What fn may reject with: whether it is a non-null object, whether it has
\* a code property, the code, the message.
Failures ==
  {[isObject |-> TRUE, hasCode |-> TRUE, code |-> "unavailable",
    message |-> <<"offline">>],
   [isObject |-> TRUE, hasCode |-> TRUE, code |-> "resource-exhausted",
    message |-> <<"quota">>],
   [isObject |-> TRUE, hasCode |-> TRUE, code |-> "internal",
    message |-> <<"backend", "unavailable">>],
   [isObject |-> TRUE, hasCode |-> TRUE, code |-> "permission-denied",
    message |-> <<"denied">>],
   [isObject |-> TRUE, hasCode |-> TRUE, code |-> "internal",
    message |-> Undefined],
   [isObject |-> TRUE, hasCode |-> FALSE, code |-> "",
    message |-> <<"service", "unavailable">>],
   [isObject |-> TRUE, hasCode |-> FALSE, code |-> "",
    message |-> <<"timeout">>],
   [isObject |-> FALSE, hasCode |-> FALSE, code |-> "",
    message |-> Undefined]}

\* message.includes(text), on the words of the message.
MessageIncludes(message, text) == \E k \in 1..Len(message) : message[k] = text

\* typeof error === "object" && error !== null && "code" in error
isFirebaseError(error) == error.isObject /\ error.hasCode

\* The catch block: "continue" (wait, then the next attempt), "throw" (the
\* error is thrown on), or "TypeError" (firebaseError.message is undefined
\* and .includes is called on it).
Catch(error) ==
  IF isFirebaseError(error)
    THEN IF error.code = "unavailable" THEN "continue"
         ELSE IF error.code = "resource-exhausted" THEN "continue"
         ELSE IF error.message = Undefined THEN "TypeError"
         ELSE IF MessageIncludes(error.message, "unavailable") THEN "continue"
         ELSE "throw"
    ELSE "throw"

\* What the call threw: nothing yet, the error it caught last, the TypeError
\* raised inside the catch block, or the error made after the loop.
NothingThrown == "none"

CaughtError == "error"

MaxRetriesExceeded == "Max retries exceeded for Firebase operation."

\* No failure caught yet.
NoFailure == [isObject |-> FALSE, hasCode |-> FALSE, code |-> "",
              message |-> <<>>]

\* Faulty variant: the loop runs while i <= maxRetries.
LoopOneMore(call) ==
  IF call.i <= call.maxRetries
    THEN [call EXCEPT !.at = "fn", !.calls = call.calls + 1]
    ELSE [call EXCEPT !.at = "thrown", !.thrown = MaxRetriesExceeded]

\* The head of the for loop: fn is called while i < maxRetries, and the
\* statement after the loop throws.
Loop(call) ==
  IF call.i < call.maxRetries
    THEN [call EXCEPT !.at = "fn", !.calls = call.calls + 1]
    ELSE [call EXCEPT !.at = "thrown", !.thrown = MaxRetriesExceeded]

\* withBackoff(fn, maxRetries) up to its first await.
withBackoff(maxRetries) ==
  Loop([op |-> "withBackoff", maxRetries |-> maxRetries, i |-> 0,
        calls |-> 0, errors |-> <<>>, at |-> "loop",
        thrown |-> NothingThrown, last |-> NoFailure])

InitBackoff ==
  /\ playerOne = initialPlayer(TRUE, 0)
  /\ playerTwo = initialPlayer(FALSE, 0)
  /\ gameState = [gameOver |-> TRUE, winner |-> NoWinner, difficulty |-> 0,
                  rollingDice |-> TRUE, isAuthReady |-> FALSE]
  /\ selectedDifficulty = 0
  /\ timers = {}
  /\ db = FALSE
  /\ userId = FALSE
  /\ lastSelection = "none"
  /\ lastSave = NoSave
  /\ pure \in {withBackoff(maxRetries) : maxRetries \in 0..DefaultMaxRetries}
  /\ storedWins = NoDocument
  /\ snapshot = FALSE

BackoffStep(call) ==
  /\ pure' = call
  /\ UNCHANGED <<playerOne, playerTwo, gameState, selectedDifficulty, timers,
                 db, userId, lastSelection, lastSave, storedWins, snapshot>>

\* fn's promise is fulfilled: return await fn().
FnFulfilled ==
  /\ pure.at = "fn"
  /\ BackoffStep([pure EXCEPT !.at = "returned"])

\* fn's promise is rejected with error: the catch block, up to its await of
\* the delay or its throw.
FnRejected(error) ==
  /\ pure.at = "fn"
  /\ BackoffStep(
       CASE Catch(error) = "continue" ->
              [pure EXCEPT !.at = "delay", !.errors = Append(@, error),
                           !.last = error]
         [] Catch(error) = "TypeError" ->
              [pure EXCEPT !.at = "thrown", !.thrown = "TypeError",
                           !.last = error]
         [] OTHER ->
              [pure EXCEPT !.at = "thrown", !.thrown = CaughtError,
                           !.last = error])

\* The delay's timer fires: continue, i++, and the head of the loop again.
DelayElapsed ==
  /\ pure.at = "delay"
  /\ BackoffStep(Loop([pure EXCEPT !.i = pure.i + 1]))

NextBackoff ==
  \/ FnFulfilled
  \/ \E error \in Failures : FnRejected(error)
  \/ DelayElapsed

SpecBackoff == InitBackoff /\ [][NextBackoff]_vars

(***************************************************************************)
(* 8. Properties                                                           *)
(***************************************************************************)
Players == {playerOne, playerTwo}

Slots == 1..LANE_SIZE

\* Every slot of the board holds a die.
AllSlotsFilled(board) ==
  \A i \in 1..TOTAL_LANES : \A k \in Slots : board[i][k] # 0

DiceOn(board) ==
  Cardinality({<<i, k>> \in (1..TOTAL_LANES) \X Slots : board[i][k] # 0})

Count(lane, v) == Cardinality({k \in Slots : lane[k] = v})

\* The score of a lane as the rules define it.
RuleLaneScore(lane) ==
    1 * Count(lane, 1) * Count(lane, 1) + 2 * Count(lane, 2) * Count(lane, 2)
  + 3 * Count(lane, 3) * Count(lane, 3) + 4 * Count(lane, 4) * Count(lane, 4)
  + 5 * Count(lane, 5) * Count(lane, 5) + 6 * Count(lane, 6) * Count(lane, 6)

RuleTotalScore(board) ==
  RuleLaneScore(board[1]) + RuleLaneScore(board[2]) + RuleLaneScore(board[3])

PrefixFilled(lane) == \A k \in 1..(LANE_SIZE - 1) : lane[k] = 0 => lane[k + 1] = 0

\* C1: in every lane of both boards the dice form a contiguous prefix (no
\* empty slot is followed by a die), so the last slot holds a die exactly
\* when the lane has no empty slot.
C1_PrefixFilled ==
  \A p \in Players : \A i \in 1..TOTAL_LANES :
    /\ PrefixFilled(p.board[i])
    /\ (p.board[i][LANE_SIZE] # 0) <=> (\A k \in Slots : p.board[i][k] # 0)

\* C1 witness: it is player one's turn again and player one holds fewer dice
\* than the Knucklebot, so a capture emptied slots of a lane that still
\* holds a die.
C1_Witness ==
  /\ ~gameState.gameOver /\ playerOne.isActive /\ gameState.rollingDice
  /\ DiceOn(playerOne.board) < DiceOn(playerTwo.board)
  /\ \E i \in 1..TOTAL_LANES :
       playerOne.board[i][1] # 0 /\ playerOne.board[i][LANE_SIZE] = 0

\* after is before without the dice showing r: the survivors keep their
\* order, stand leftmost, and the freed slots at the end are empty.
Captured(before, after, r) ==
  LET m == Cardinality({k \in Slots : before[k] # 0 /\ before[k] # r})
  IN  /\ Len(after) = LANE_SIZE
      /\ \A k \in Slots : after[k] # r
      /\ \A k \in Slots : (k <= m) <=> (after[k] # 0)
      /\ \E f \in [1..m -> Slots] :
           /\ \A j \in 1..m : \A j2 \in 1..m : j < j2 => f[j] < f[j2]
           /\ \A j \in 1..m : before[f[j]] = after[j]
      /\ (\A k \in Slots : before[k] # r) => after = before

\* C2: a capture removes every die showing the placed value from the
\* opponent's lane of the same index, keeps the survivors in order and
\* leftmost, leaves the freed slots at the end empty, and leaves a lane
\* without that value (an empty lane included) unchanged; [2,5,2] with a 2
\* placed becomes [5,0,0].
C2_Capture ==
  /\ clearMatches(<<2, 5, 2>>, 2) = <<5, 0, 0>>
  /\ (pure.op = "clearMatches" /\ PrefixFilled(pure.lane))
       => Captured(pure.lane, pure.out, pure.roll)
  /\ pure.op = "capture"
       => /\ Captured(pure.board[TOTAL_LANES], pure.out[TOTAL_LANES], pure.roll)
          /\ pure.out[TOTAL_LANES] = <<0, 0, 0>>
          /\ \A i \in 1..(TOTAL_LANES - 1) : pure.out[i] = pure.board[i]

\* C2 witness: [2,5,2] met by a 2 became [5,0,0].
C2_Witness ==
  /\ pure.op = "clearMatches" /\ pure.lane = <<2, 5, 2>> /\ pure.roll = 2
  /\ pure.out = <<5, 0, 0>>

\* C3: once a game has been started it is over exactly when some player's
\* board has all nine slots filled.
C3_OverIffBoardFull ==
  Started =>
    (gameState.gameOver <=>
       (AllSlotsFilled(playerOne.board) \/ AllSlotsFilled(playerTwo.board)))

\* C3 witness: the game ended on player one's ninth die.
C3_Witness ==
  Started /\ gameState.gameOver /\ AllSlotsFilled(playerOne.board)

\* C4: at game over the winner is the player whose total score on the final
\* boards is strictly higher, and equal totals leave no winner.
C4_WinnerStrictlyHigher ==
  (Started /\ gameState.gameOver) =>
    LET one == RuleTotalScore(playerOne.board)
        two == RuleTotalScore(playerTwo.board)
    IN  gameState.winner = IF one > two THEN "playerOne"
                           ELSE IF two > one THEN "playerTwo"
                           ELSE NoWinner

\* C4 witness: a game that ended in a draw.
C4_Witness ==
  /\ Started /\ gameState.gameOver /\ gameState.winner = NoWinner
  /\ RuleTotalScore(playerOne.board) = RuleTotalScore(playerTwo.board)

HasEmptySlot(lane) == \E k \in Slots : lane[k] = 0

\* C5: whenever the Knucklebot is to move, for every difficulty and every
\* roll the lane it returns is one of 0..2 and a lane of its own board with
\* an empty slot; the lane scheduled for its move is such a lane.
C5_AiLaneOpen ==
  /\ (~gameState.gameOver /\ playerTwo.isActive) =>
       \A d \in DifficultyValues : \A roll \in 1..DieFaces :
         LET returned == knucklebotMove(playerOne.board, playerTwo.board,
                                        roll, d, gameState.gameOver)
         IN  /\ returned # {}
             /\ \A s \in returned :
                  s \in 0..2 /\ HasEmptySlot(playerTwo.board[s + 1])
  /\ \A t \in timers :
       t.kind = "ai" =>
         /\ t.selectionIndex \in 0..2
         /\ HasEmptySlot(playerTwo.board[t.selectionIndex + 1])

\* C5 witness: the Knucklebot holds a roll that player one's board shows in
\* a lane whose counterpart on its own board is full.
C5_Witness ==
  /\ ~gameState.gameOver /\ playerTwo.isActive /\ playerTwo.currentRoll # 0
  /\ timers # {}
  /\ \E i \in 1..TOTAL_LANES :
       /\ \E k \in Slots : playerOne.board[i][k] = playerTwo.currentRoll
       /\ \A j \in 1..(i - 1) : \A k \in Slots :
            playerOne.board[j][k] # playerTwo.currentRoll
       /\ ~HasEmptySlot(playerTwo.board[i])

ActivePlayer == IF playerOne.isActive THEN playerOne ELSE playerTwo

\* An attempt the rules reject: no roll pending, no such lane, or a lane
\* without an empty slot.
InvalidAttempt(index) ==
  \/ ActivePlayer.currentRoll = 0
  \/ index \notin 0..2
  \/ index \in 0..2 /\ ~HasEmptySlot(ActivePlayer.board[index + 1])

\* C6: an invalid move attempt changes nothing: boards, scores, active
\* flags, pending rolls, the game-over and rolling flags, the pending timers
\* and the saved results stay as they were.
C6_InvalidMoveRejected ==
  [][\A index \in ApiIndices :
       (InvalidAttempt(index) /\ DirectSelect(index)) =>
         UNCHANGED <<playerOne, playerTwo, gameState, timers, lastSave>>]_vars

\* C6 witness: a call with an index outside the board was rejected, and the
\* active player holds a roll and faces a full first lane.
C6_Witness ==
  /\ lastSelection = "throw"
  /\ ~gameState.gameOver /\ ActivePlayer.currentRoll # 0
  /\ ~HasEmptySlot(ActivePlayer.board[1])

C8_SavedOnceAtGameOver ==
  /\ ~gameState.gameOver => lastSave.calls = 0
  /\ ~Started => lastSave.calls = 0
  /\ (Started /\ gameState.gameOver) => lastSave.calls = 1

\* C8 witness: a game ended and its results were handed over.
C8_Witness == Started /\ gameState.gameOver /\ lastSave.calls = 1

\* C9 as stated: a game the Knucklebot wins or that is drawn submits neither
\* a win-count write nor a match record.
C9_OnlyFirstPlayerWinSubmits ==
  (Started /\ gameState.gameOver /\ gameState.winner # "playerOne") =>
    ~lastSave.winsWrite /\ ~lastSave.matchWrite

\* C9 amended: the win count is written only for a first-player win, and the
\* match record is submitted at every game end at which persistence is
\* available, whoever won.
C9_WinsWriteOnlyForFirstPlayer ==
  (Started /\ gameState.gameOver) =>
    /\ lastSave.winsWrite <=>
         (lastSave.submitted /\ gameState.winner = "playerOne")
    /\ lastSave.matchWrite <=> lastSave.submitted
    /\ lastSave.submitted =>
         lastSave.winnerName = CASE gameState.winner = "playerOne" -> "Player"
                                 [] gameState.winner = "playerTwo" -> "Knucklebot"
                                 [] OTHER -> "Draw"

\* C9 witness: the Knucklebot won and the match record alone was submitted.
C9_Witness ==
  /\ Started /\ gameState.gameOver /\ gameState.winner = "playerTwo"
  /\ lastSave.matchWrite /\ ~lastSave.winsWrite

\* C10: the lane score is the sum over the values in the lane of the value
\* times the square of its count, the total score the sum of the three lane
\* scores; an empty lane scores 0, [3,3,3] scores 27 and [1,2,3] scores 6.
C10_Scores ==
  /\ calcLaneScore(<<0, 0, 0>>) = 0
  /\ calcLaneScore(<<3, 3, 3>>) = 27
  /\ calcLaneScore(<<1, 2, 3>>) = 6
  /\ pure.op = "calcLaneScore" => pure.out = RuleLaneScore(pure.lane)
  /\ pure.op = "calcTotalScore" => pure.out = RuleTotalScore(pure.board)

\* C10 witness: the total of a board with a lane of three sixes was computed.
C10_Witness ==
  /\ pure.op = "calcTotalScore" /\ pure.lane = <<6, 6, 6>>
  /\ pure.out >= 54

\* C11: each player's score field equals the total score of that player's
\* current board, computed by the scoring rule; with empty boards both are 0.
C11_ScoreMatchesBoard ==
  \A p \in Players :
    /\ p.score = RuleTotalScore(p.board)
    /\ DiceOn(p.board) = 0 => p.score = 0

\* C11 witness: the human's move captured dice of the Knucklebot, whose
\* remaining dice still score.
C11_Witness ==
  /\ ~gameState.gameOver /\ playerTwo.isActive /\ gameState.rollingDice
  /\ DiceOn(playerTwo.board) + 1 < DiceOn(playerOne.board)
  /\ playerTwo.score > 0

\* after is before with r written at the first empty slot of lane index and
\* nothing else changed.
Placed(before, after, index, r) ==
  \E k \in Slots :
    /\ before[index + 1][k] = 0
    /\ \A j \in 1..(k - 1) : before[index + 1][j] # 0
    /\ after = [before EXCEPT ![index + 1][k] = r]

\* C12: an accepted move with roll r in lane i writes r at the first empty
\* slot of the active player's lane i and changes no other slot of that
\* board; on a fresh game, roll 4 in lane 1 gives [[0,0,0],[4,0,0],[0,0,0]]
\* and score 4.
C12_PlacedAtFirstEmpty ==
  /\ LET fresh == MovePlayers([initialPlayer(TRUE, 0) EXCEPT
                                 !.isActive = TRUE, !.currentRoll = 4],
                              initialPlayer(FALSE, 0), 1).newP1
     IN  /\ fresh.board = <<<<0, 0, 0>>, <<4, 0, 0>>, <<0, 0, 0>>>>
         /\ fresh.score = 4
  /\ pure.op = "select"
       => Placed(pure.out.before, pure.out.after, pure.out.index, pure.roll)

\* C12 witness: a 4 was placed in the empty lane 1 of a board whose other
\* lanes hold dice.
C12_Witness ==
  /\ pure.op = "select" /\ pure.out.index = 1
  /\ pure.lane = <<0, 0, 0>> /\ pure.roll = 4
  /\ pure.out.after = <<<<0, 0, 0>>, <<4, 0, 0>>, <<4, 4, 0>>>>

\* A step of a running game that changes a board: an accepted move.
MoveApplied ==
  /\ ~gameState.gameOver
  /\ playerOne'.board # playerOne.board \/ playerTwo'.board # playerTwo.board

\* A step that leaves the terminal state: a start or restart.
GameStarts == gameState.gameOver /\ ~gameState'.gameOver

\* An accepted move is made on the board of the active player, deactivates
\* that player and activates the other.
MovePassesTurn ==
  MoveApplied =>
    /\ playerOne'.isActive = ~playerOne.isActive
    /\ playerTwo'.isActive = ~playerTwo.isActive
    /\ IF playerOne.isActive
         THEN DiceOn(playerOne'.board) = DiceOn(playerOne.board) + 1
         ELSE DiceOn(playerTwo'.board) = DiceOn(playerTwo.board) + 1

\* The active flags change only at an accepted move or at a start, which
\* makes the first player the active one.
TurnChangesOnlyByMove ==
  (playerOne'.isActive # playerOne.isActive
     \/ playerTwo'.isActive # playerTwo.isActive)
    => (MoveApplied \/ (GameStarts /\ playerOne'.isActive /\ ~playerTwo'.isActive))

FreshPlayer(p, active, wins) ==
  /\ \A i \in 1..TOTAL_LANES : \A k \in Slots : p.board[i][k] = 0
  /\ p.score = 0 /\ p.currentRoll = 0
  /\ p.isActive = active
  /\ p.wins = wins

\* C14: right after a start or restart both boards are empty, both scores
\* are 0, no roll is pending, the first player is active and the Knucklebot
\* is not, the game is running without a winner and awaits a roll, and each
\* player's win count is what it was before.
C14_StartReplacesGame ==
  [][GameStarts =>
       /\ FreshPlayer(playerOne', TRUE, playerOne.wins)
       /\ FreshPlayer(playerTwo', FALSE, playerTwo.wins)
       /\ playerOne'.isFirstPlayer /\ ~playerTwo'.isFirstPlayer
       /\ gameState'.winner = NoWinner /\ gameState'.rollingDice]_vars

\* C14 witness: a game restarted after a game the first player won, with
\* the win counted.
C14_Witness ==
  /\ ~gameState.gameOver /\ gameState.rollingDice /\ lastSelection = "applied"
  /\ FreshPlayer(playerOne, TRUE, 1)
  /\ FreshPlayer(playerTwo, FALSE, 0)

\* Everything of a player but the win count.
GameFields(p) == <<p.board, p.score, p.currentRoll, p.isActive>>

\* C15: while the game stays over no roll is generated and no move is
\* applied: boards, scores, pending rolls, active flags and the winner are
\* what they were when the game ended, until a start or restart.
C15_GameOverTerminal ==
  [][(gameState.gameOver /\ gameState'.gameOver) =>
       /\ GameFields(playerOne') = GameFields(playerOne)
       /\ GameFields(playerTwo') = GameFields(playerTwo)
       /\ gameState'.winner = gameState.winner]_vars

\* C15 witness: after a game ended on a full board a lane selection was
\* attempted and rejected.
C15_Witness ==
  /\ Started /\ gameState.gameOver /\ lastSelection = "warn"
  /\ AllSlotsFilled(playerOne.board) \/ AllSlotsFilled(playerTwo.board)

\* C16: the inactive player never holds a pending roll; in a running game
\* that is not rolling the active player holds a roll in 1..6; while a roll
\* is being generated (at the start and after every accepted move) and once
\* the game is over, neither player holds one.
C16_PendingRoll ==
  /\ \A p \in Players : ~p.isActive => p.currentRoll = 0
  /\ (~gameState.gameOver /\ ~gameState.rollingDice)
       => ActivePlayer.currentRoll \in 1..DieFaces
  /\ (gameState.gameOver \/ gameState.rollingDice)
       => playerOne.currentRoll = 0 /\ playerTwo.currentRoll = 0

\* C16 witness: after a move of the first player the Knucklebot holds the
\* roll and the first player holds none.
C16_Witness ==
  /\ ~gameState.gameOver /\ ~gameState.rollingDice
  /\ playerTwo.isActive /\ playerTwo.currentRoll = 2
  /\ playerOne.currentRoll = 0 /\ DiceOn(playerOne.board) > 0

\* C17 as stated: once a game has ended with the first player as winner and
\* the wins listener owes no delivery, the win count is the new total that
\* the end of the game computed, one greater than the count during the game.
C17_WinCountIncrements ==
  (Started /\ gameState.gameOver /\ gameState.winner = "playerOne" /\ ~snapshot)
    => playerOne.wins = lastSave.playerOneNewTotalWins

\* At the end of a game the win count is written exactly for a first-player
\* win with the persistence collaborator available; once committed, the
\* stored total is one greater than the count, until the listener delivers
\* it.
WinWritten ==
  (Started /\ gameState.gameOver) =>
    /\ lastSave.winsWrite <=>
         (lastSave.submitted /\ gameState.winner = "playerOne")
    /\ (lastSave.winsWrite /\ lastSave.committed) =>
         /\ storedWins = lastSave.totalWins
         /\ \/ snapshot /\ storedWins = playerOne.wins + 1
            \/ ~snapshot /\ storedWins = playerOne.wins

\* The count changes only when the listener delivers the stored total; the
\* stored total changes only at the end of a game the first player won, to
\* one more than the count; the Knucklebot's count never changes.
WinsOnlyThroughStore ==
  /\ playerOne'.wins # playerOne.wins =>
       /\ snapshot /\ ~snapshot'
       /\ storedWins # NoDocument /\ playerOne'.wins = storedWins
  /\ storedWins' # storedWins =>
       /\ ~gameState.gameOver /\ gameState'.gameOver
       /\ gameState'.winner = "playerOne"
       /\ storedWins' = playerOne.wins + 1
  /\ playerTwo'.wins = playerTwo.wins

\* C17 amended: a first-player win with the persistence collaborator
\* available writes a total one greater than the win count, and the count
\* takes the stored total when the wins listener delivers it; no game end
\* changes the count by itself, nothing is written for a Knucklebot win or
\* a draw, and a start or restart keeps the count.
C17_WinCountThroughStore ==
  /\ []WinWritten
  /\ [][WinsOnlyThroughStore]_vars

\* C17 witness: the second win of the first player has been counted.
C17_Witness ==
  /\ Started /\ gameState.gameOver /\ gameState.winner = "playerOne"
  /\ playerOne.wins = 2 /\ storedWins = 2 /\ ~snapshot

\* The lanes of the selection rules, as sets of lane indices (empty: none).
LaneHolds(board, i, r) == \E k \in Slots : board[i + 1][k] = r

LaneOpen(board, i) == HasEmptySlot(board[i + 1])

Lowest(S) == {i \in S : \A j \in S : i <= j}

\* The lowest-index opponent lane containing the roll.
RuleCaptureLane(opp, r) == Lowest({i \in 0..2 : LaneHolds(opp, i, r)})

\* The capture lane, provided the own lane at that index is not full.
RuleOpenCapture(opp, self, r) ==
  {i \in RuleCaptureLane(opp, r) : LaneOpen(self, i)}

\* The lowest-index non-full own lane already containing the roll.
RuleMatchLane(self, r) ==
  Lowest({i \in 0..2 : LaneHolds(self, i, r) /\ LaneOpen(self, i)})

RuleFirstOpen(self) == Lowest({i \in 0..2 : LaneOpen(self, i)})

RuleAnyOpen(self) == {i \in 0..2 : LaneOpen(self, i)}

\* laneScore(after) - laneScore(before) for the roll put at the first empty
\* slot of own lane i.
RuleDelta(self, i, r) ==
  LET lane == self[i + 1]
      k == CHOOSE x \in Slots :
             lane[x] = 0 /\ \A y \in 1..(x - 1) : lane[y] # 0
  IN  RuleLaneScore([lane EXCEPT ![k] = r]) - RuleLaneScore(lane)

\* The non-full own lane of strictly greatest delta, the lowest index on ties.
RuleBestLane(self, r) ==
  LET open == RuleAnyOpen(self)
      delta == [i \in open |-> RuleDelta(self, i, r)]
  IN  Lowest({i \in open : \A j \in open : delta[j] <= delta[i]})

FirstHit(choices) ==
  IF choices = <<>> THEN {}
  ELSE IF Head(choices) # {} THEN Head(choices)
  ELSE IF Len(choices) = 1 THEN {}
  ELSE IF choices[2] # {} THEN choices[2]
  ELSE IF Len(choices) = 2 THEN {}
  ELSE IF choices[3] # {} THEN choices[3]
  ELSE IF Len(choices) = 3 THEN {}
  ELSE IF choices[4] # {} THEN choices[4]
  ELSE IF Len(choices) = 4 THEN {}
  ELSE choices[5]

RuleNormal(opp, self, r) ==
  FirstHit(<<RuleOpenCapture(opp, self, r), RuleMatchLane(self, r),
             RuleFirstOpen(self), RuleAnyOpen(self)>>)

RuleEasy(opp, self, r) ==
  FirstHit(<<RuleMatchLane(self, r), RuleOpenCapture(opp, self, r),
             RuleFirstOpen(self), RuleAnyOpen(self)>>)

RuleHard(opp, self, r) ==
  FirstHit(<<RuleOpenCapture(opp, self, r), RuleBestLane(self, r),
             RuleMatchLane(self, r), RuleFirstOpen(self), RuleAnyOpen(self)>>)

BotToMove == ~gameState.gameOver /\ playerTwo.isActive

\* Every face that can lie on a board, and one face that lies on none (the
\* faces above MaxFace are on no board, so one of them stands for all).
Rolls == 1..(MaxFace + 1)

\* The lane scheduled for the Knucklebot's pending move.
Scheduled == {t.selectionIndex : t \in {x \in timers : x.kind = "ai"}}

ExampleBoard == <<(<<1, 1, 0>>), (<<0, 0, 0>>), (<<4, 0, 0>>)>>

ExampleApplied ==
  /\ pure.op = "bestPlacementMove"
  /\ pure.roll = 1
  /\ pure.out.board = ExampleBoard

\* C21 as stated: on the example the increases of lanes 0 and 1 are both 1
\* (3 - 2 and 1 - 0), they tie, and lane 0 is returned.
C21_ExampleTie ==
  ExampleApplied =>
    /\ pure.out.increase[0] = 1
    /\ pure.out.increase[1] = 1
    /\ pure.out.best = {0}

\* C21 amended: on the example the increase of lane 0 is 9 - 4 = 5, that of
\* lanes 1 and 2 is 1, lane 0 is strictly the greatest and is returned; and
\* on every board the lane returned has the greatest increase among the
\* lanes that are not full, the lowest index among those of equal increase.
C21_ExampleStrictBest ==
  /\ ExampleApplied =>
       /\ pure.out.increase[0] = 5
       /\ pure.out.increase[1] = 1
       /\ pure.out.increase[2] = 1
       /\ pure.out.best = {0}
  /\ pure.op = "bestPlacementMove" =>
       /\ pure.out.best = RuleBestLane(pure.out.board, pure.roll)
       /\ \A i \in DOMAIN pure.out.increase :
            pure.out.increase[i] = RuleDelta(pure.out.board, i, pure.roll)

\* C21 witness: bestPlacementMove has been applied to the example and has
\* returned lane 0.
C21_Witness == ExampleApplied /\ pure.out.best = {0}

\* The retryable failures of the retry policy: code unavailable, code
\* resource-exhausted, or a message containing "unavailable".
RuleRetryable(error) ==
  \/ error.hasCode /\ error.code = "unavailable"
  \/ error.hasCode /\ error.code = "resource-exhausted"
  \/ error.message # Undefined /\ MessageIncludes(error.message, "unavailable")

BackoffEnded == pure.at \in {"returned", "thrown"}

\* The shape of a call of withBackoff at every moment.
BackoffShape ==
  /\ pure.calls <= pure.maxRetries
  /\ pure.at = "fn" => pure.calls = Len(pure.errors) + 1
  /\ pure.at = "delay" => pure.calls = Len(pure.errors)
  /\ pure.at = "returned" => pure.calls = Len(pure.errors) + 1
  /\ (pure.at = "thrown" /\ pure.thrown # MaxRetriesExceeded) =>
       /\ pure.calls = Len(pure.errors) + 1
       /\ Catch(pure.last) # "continue"
  /\ (pure.at = "thrown" /\ pure.thrown = MaxRetriesExceeded) =>
       /\ pure.calls = pure.maxRetries
       /\ Len(pure.errors) = pure.maxRetries

\* One step of a call: nothing follows its end; a fulfilled attempt returns
\* at once; a failure that is not retried is thrown without another
\* attempt; a retried failure is followed by a wait, and the wait by the
\* next attempt or, after the last attempt, by the final failure.
BackoffSteps ==
  /\ BackoffEnded => pure' = pure
  /\ pure.at = "fn" =>
       \/ pure'.at = "returned" /\ pure'.calls = pure.calls
       \/ pure'.at = "thrown" /\ pure'.calls = pure.calls
          /\ Catch(pure'.last) # "continue"
       \/ pure'.at = "delay" /\ pure'.calls = pure.calls
          /\ Catch(pure'.last) = "continue"
  /\ pure.at = "delay" =>
       \/ pure'.at = "fn" /\ pure'.calls = pure.calls + 1
          /\ pure.calls < pure.maxRetries
       \/ pure'.at = "thrown" /\ pure'.thrown = MaxRetriesExceeded
          /\ pure'.calls = pure.calls /\ pure.calls = pure.maxRetries

\* C22: withBackoff calls the operation at most maxRetries times (5 by
\* default); it returns at the first fulfilled attempt; after a retried
\* failure it waits and attempts again; a failure that is not retried is
\* thrown at once; and when every attempt fails and is retried it throws
\* after maxRetries attempts.
C22_BoundedRetry == []BackoffShape /\ [][BackoffSteps]_vars

\* C22 witness: with the default of 5, five attempts failed, all were
\* retried, and the call ended with the final failure.
C22_Witness ==
  /\ pure.maxRetries = DefaultMaxRetries
  /\ pure.at = "thrown" /\ pure.thrown = MaxRetriesExceeded
  /\ pure.calls = DefaultMaxRetries

\* C23 as stated: a failure is retried exactly when its code is unavailable
\* or resource-exhausted or its message contains "unavailable", with or
\* without a code.
C23_RetryableClassification ==
  /\ pure.at = "delay" => RuleRetryable(pure.last)
  /\ (pure.at = "thrown" /\ pure.thrown # MaxRetriesExceeded) =>
       ~RuleRetryable(pure.last)

\* The results of the game that ended were not stored: the persistence
\* collaborator was not initialised (nothing submitted), or the commit
\* failed.
PersistenceFailed ==
  Started /\ gameState.gameOver /\ lastSave.calls > 0 /\ ~lastSave.committed

RuleWinner(scoreOne, scoreTwo) ==
  IF scoreOne > scoreTwo THEN "playerOne"
  ELSE IF scoreTwo > scoreOne THEN "playerTwo"
  ELSE NoWinner

\* The in-memory outcome of a game: a board is full exactly when the game is
\* over, the scores are those of the boards, the winner is the player of
\* strictly higher score, nobody is active and no roll is pending.
OutcomeInMemory ==
  Started =>
    /\ gameState.gameOver <=>
         (AllSlotsFilled(playerOne.board) \/ AllSlotsFilled(playerTwo.board))
    /\ gameState.gameOver =>
         /\ playerOne.score = RuleTotalScore(playerOne.board)
         /\ playerTwo.score = RuleTotalScore(playerTwo.board)
         /\ gameState.winner = RuleWinner(playerOne.score, playerTwo.score)

\* The step that ends a game: the players are those the move produces from
\* the players before it, whatever the state of the persistence
\* collaborator and whatever becomes of the commit.
GameEndsAsMoved ==
  (~gameState.gameOver /\ gameState'.gameOver) =>
    \E index \in Lanes :
      LET moved == MovePlayers(playerOne, playerTwo, index)
      IN  /\ playerOne' = moved.newP1
          /\ playerTwo' = moved.newP2
          /\ gameState' = [gameState EXCEPT
                             !.gameOver = TRUE,
                             !.winner = RuleWinner(moved.newP1.score,
                                                   moved.newP2.score)]

\* C24: a game whose results could not be stored (persistence not
\* initialised, or the commit failed) still ends: the game is over with the
\* winner, boards and scores the last move produced, exactly as when the
\* results are stored, and a restart is possible.
C24_FailureKeepsOutcome ==
  /\ [](OutcomeInMemory /\ (PersistenceFailed => ENABLED startGame))
  /\ [][GameEndsAsMoved]_vars

\* C24 witness: the first player won, the results were submitted and the
\* commit failed; the stored total is not the new total.
C24_Witness ==
  /\ PersistenceFailed /\ lastSave.submitted /\ lastSave.winsWrite
  /\ gameState.winner = "playerOne"
  /\ storedWins # lastSave.totalWins

\* Local-only mode: no database (the initialisation threw) or no user (the
\* sign-in failed).
LocalOnly == ~db \/ ~userId

\* While the game is not ready, the failure makes it ready: the catch of the
\* initialisation when there is no database yet, the auth-state callback
\* without a user once there is one.
FailureMakesReady ==
  ~gameState.isAuthReady =>
    IF db THEN ENABLED (AuthStateChanged(FALSE) /\ gameState'.isAuthReady)
    ELSE ENABLED (FirebaseInitFailed /\ gameState'.isAuthReady)

\* In local-only mode the statistics are neither loaded nor saved.
StatsSkipped ==
  LocalOnly =>
    /\ storedWins = NoDocument /\ ~snapshot
    /\ ~lastSave.submitted /\ ~lastSave.committed
    /\ playerOne.wins = 0

\* A ready game in local-only mode can be started when it is over, and while
\* it runs a roll or an AI move is scheduled or the first player has a roll
\* and a lane that is not full.
LocalPlayable ==
  (LocalOnly /\ gameState.isAuthReady) =>
    /\ gameState.gameOver => ENABLED startGame
    /\ ~gameState.gameOver =>
         \/ timers # {}
         \/ /\ playerOne.isActive /\ playerOne.currentRoll # 0
            /\ \E i \in 0..2 : HasEmptySlot(playerOne.board[i + 1])

\* C25: when the initialisation throws or the sign-in fails the game still
\* becomes ready, stays ready, and in local-only mode can be started and
\* played to its end, with the statistics neither loaded nor saved.
C25_LocalOnlyPlayable ==
  /\ [](FailureMakesReady /\ StatsSkipped /\ LocalPlayable)
  /\ [][gameState.isAuthReady => gameState'.isAuthReady]_vars

\* C25 witness: the initialisation threw, and a game was started and played
\* to its end; saveData was called and submitted nothing.
C25_Witness ==
  /\ ~db /\ gameState.isAuthReady
  /\ Started /\ gameState.gameOver
  /\ lastSave.calls = 1 /\ ~lastSave.submitted

\* C26: at most one timer is pending, the delayed roll or the delayed AI
\* move; none is pending while the game is over, nor while the first player
\* is active with a roll pending.
C26_OneTimerAtMost ==
  /\ Cardinality(timers) <= 1
  /\ gameState.gameOver => timers = {}
  /\ (playerOne.isActive /\ playerOne.currentRoll # 0) => timers = {}
  /\ \A t \in timers :
       /\ t.kind = "roll" <=> gameState.rollingDice
       /\ t.kind = "ai" <=>
            (~gameState.rollingDice /\ playerTwo.isActive
               /\ playerTwo.currentRoll # 0)

\* C26 witness: the Knucklebot's move is the one timer pending.
C26_Witness ==
  /\ Cardinality(timers) = 1
  /\ \E t \in timers : t.kind = "ai"
  /\ playerTwo.isActive /\ playerTwo.currentRoll # 0

\* Some lane of the board is not full, by its slots and by laneIsFull.
SomeLaneOpen(board) ==
  /\ \E i \in 0..2 : HasEmptySlot(board[i + 1])
  /\ \E i \in 0..2 : ~laneIsFull(board, i)

\* C27: while the game is on no board is full, so a player with a pending
\* roll has a lane that is not full, and whenever the Knucklebot is to move
\* the resampling loop of knucklebotMove ends and a lane is returned.
C27_TurnNeverOnFullBoard ==
  (Started /\ ~gameState.gameOver) =>
    /\ \A p \in Players : p.currentRoll # 0 => SomeLaneOpen(p.board)
    /\ SomeLaneOpen(playerOne.board) /\ SomeLaneOpen(playerTwo.board)
    /\ (playerTwo.isActive /\ playerTwo.currentRoll # 0) =>
         /\ RandomOpenLane(playerTwo.board) # {}
         /\ knucklebotMove(playerOne.board, playerTwo.board,
                           playerTwo.currentRoll, gameState.difficulty,
                           gameState.gameOver) # {}

\* C27 witness: the Knucklebot holds a roll with a single empty slot left
\* on its board.
C27_Witness ==
  /\ ~gameState.gameOver
  /\ playerTwo.isActive /\ playerTwo.currentRoll # 0
  /\ DiceOn(playerTwo.board) = TOTAL_LANES * LANE_SIZE - 1

AwaitingRoll == ~gameState.gameOver /\ gameState.rollingDice

RollGenerated ==
  /\ ~gameState.gameOver /\ ~gameState.rollingDice
  /\ ActivePlayer.currentRoll \in 1..DieFaces

AiTurn ==
  /\ ~gameState.gameOver /\ ~gameState.rollingDice
  /\ playerTwo.isActive /\ playerTwo.currentRoll # 0

\* The Knucklebot's turn is over: the first player is active or the game is
\* over.
AiTurnDone == playerOne.isActive \/ gameState.gameOver

\* The Knucklebot's turn ends only by the scheduled lane being applied as
\* an accepted move with the roll it holds.
AiMoveAccepted ==
  (AiTurn /\ ~AiTurn') =>
    /\ lastSelection' = "applied"
    /\ AiTurnDone'
    /\ \E s \in Scheduled :
         Placed(playerTwo.board, playerTwo'.board, s, playerTwo.currentRoll)

FrameOfMove(a, o, a2, o2, i) ==
  /\ \A j \in (0..2) \ {i} :
       a2.board[j + 1] = a.board[j + 1] /\ o2.board[j + 1] = o.board[j + 1]
  /\ \E k \in Slots :
       /\ a.board[i + 1][k] = 0 /\ a2.board[i + 1][k] = a.currentRoll
       /\ \A k2 \in Slots \ {k} : a2.board[i + 1][k2] = a.board[i + 1][k2]
  /\ \A v \in 1..DieFaces :
       Count(o2.board[i + 1], v) <= Count(o.board[i + 1], v)
  /\ DiceOn(o2.board) <= DiceOn(o.board)
  /\ a2.wins = a.wins /\ o2.wins = o.wins
  /\ a2.name = a.name /\ o2.name = o.name
  /\ a2.isFirstPlayer = a.isFirstPlayer /\ o2.isFirstPlayer = o.isFirstPlayer

MoveFrame ==
  MoveApplied =>
    /\ \E i \in 0..2 :
         IF playerOne.isActive
           THEN FrameOfMove(playerOne, playerTwo, playerOne', playerTwo', i)
           ELSE FrameOfMove(playerTwo, playerOne, playerTwo', playerOne', i)
    /\ selectedDifficulty' = selectedDifficulty
    /\ gameState'.difficulty = gameState.difficulty

\* C29: an accepted move in lane i leaves every other lane of both boards
\* unchanged, changes exactly one slot of the mover's board from 0 to the
\* roll, puts no die on the opponent's board and never increases the count
\* of any value there, and leaves the win counts, the names and the
\* difficulty unchanged.
C29_MoveFrame == [][MoveFrame]_vars

\* C29 witness: three moves of the first player were applied and the
\* Knucklebot's dice were all captured.
C29_Witness ==
  /\ AwaitingRoll /\ lastSelection = "applied" /\ playerTwo.isActive
  /\ DiceOn(playerOne.board) = 3 /\ DiceOn(playerTwo.board) = 0

\* A move applied while no Knucklebot timer is pending: the move of a lane
\* button.
HumanMove == MoveApplied /\ Scheduled = {}

\* Some lane of the Knucklebot's board gains a die of some value.
BotBoardGains ==
  \E j \in 0..2 : \E v \in 1..DieFaces :
    Count(playerTwo'.board[j + 1], v) > Count(playerTwo.board[j + 1], v)

HumanMoveIsFirstPlayers ==
  HumanMove =>
    /\ playerOne.isActive /\ playerOne.isFirstPlayer /\ ~playerTwo.isActive
    /\ playerOne.currentRoll # 0
    /\ ~gameState.rollingDice /\ ~gameState.gameOver
    /\ \E i \in 0..2 :
         Placed(playerOne.board, playerOne'.board, i, playerOne.currentRoll)
    /\ ~BotBoardGains

BotDiceFromAi ==
  BotBoardGains =>
    \E s \in Scheduled :
      Placed(playerTwo.board, playerTwo'.board, s, playerTwo.currentRoll)

\* C30: a lane selection made through a lane button is applied only as a
\* move of the first player (the first player is active, a roll is pending,
\* no roll is being generated, the game is not over) and puts no die on the
\* Knucklebot's board; a die appears on the Knucklebot's board only at a
\* lane scheduled by the AI.
C30_HumanMovesFirstBoardOnly ==
  [][HumanMoveIsFirstPlayers /\ BotDiceFromAi]_vars

\* C30 witness: the second move of the first player was applied to the
\* first board after the Knucklebot placed its first die on its own board.
C30_Witness ==
  /\ AwaitingRoll /\ lastSelection = "applied" /\ playerTwo.isActive
  /\ DiceOn(playerOne.board) = 2 /\ DiceOn(playerTwo.board) = 1

====
